---- MODULE Spec2Model ----
(***************************************************************************)
(* Model of the embedded console of public/console.js: the HTML escaper,   *)
(* the recursive value inspector, the printf-style argument formatter,     *)
(* the log store with its click-to-toggle handler and the timer registry.  *)
(*                                                                         *)
(* A JavaScript string is a sequence of one-character strings.  Markup is  *)
(* a sequence of tokens: a token is one character of text, one entity      *)
(* ("&lt;"), one tag the engine emits (SpanOpen, "</span>", "<br />") or   *)
(* one literal of the engine (", ", "[Circular]").  A character that       *)
(* reaches the markup unescaped is therefore the one-character token "<"   *)
(* or ">", which no engine tag or literal equals.                          *)
(*                                                                         *)
(* Characters outside ASCII are written by code point: "U+2026" is the     *)
(* ellipsis, "U+2BC8" / "U+2BC6" the arrows, "U+0192" the function sign.   *)
(***************************************************************************)
EXTENDS Integers, Sequences, FiniteSets, TLC

VARIABLES
  graph,   \* the objects built for one inspection: id -> object
  logs,    \* the entries under the console element, in document order,
           \* each with the raw arguments this.logs associates with it
  timers,  \* this.timers: label -> start time, or NoTimer
  now,     \* the reading of native.performanceNow()
  call     \* the last call made to the console and what it observed

vars == <<graph, logs, timers, now, call>>

------------------------------------------------------------------------------
(* Bounds of the model *)

\* frames a call chain may nest before the engine raises RangeError
StackLimit == 12
\* entries the console element holds before logging is no longer offered
MaxEntries == 2
\* members a node of a generated graph holds at most
MaxSlots == 2
\* largest reading of the clock
MaxTime == 2

------------------------------------------------------------------------------
(* Constants of console.js *)

placeholders == {"o", "O", "d", "i", "s", "f"}

COLLAPSED_CHAR == "U+2026"
COLLAPSED_ARROW_RAW == "U+2BC8"
EXPANDED_ARROW_RAW == "U+2BC6"
MAX_COLLAPSED_PROPERTIES == 5

ClassNames ==
  [NULLISH |-> "ec-nullish", STRING |-> "ec-string", STRING_OBJECT |-> "ec-regexp",
   NUMERIC |-> "ec-numeric", REGEXP |-> "ec-regexp", OBJECT |-> "ec-object",
   FUNCTION |-> "ec-function", OBJECT_HIDDEN_PROPERTY |-> "ec-hidden",
   SET |-> "ec-object", MAP |-> "ec-object",
   FUNCTION_SIGNATURE |-> "ec-function-signature", ARROW |-> "ec-collapse-arrow",
   DEFAULT |-> "ec-string", WARNING |-> "ec-warning", LOG |-> "ec-log",
   ERROR |-> "ec-error", ENTRY |-> "ec-entry", STACK |-> "ec-stack"]

\* the opening tag wrapInSpan writes for a class
SpanOpen(className) ==
  CASE className = "ec-nullish" -> "<span class=\"ec-nullish\">"
    [] className = "ec-string" -> "<span class=\"ec-string\">"
    [] className = "ec-regexp" -> "<span class=\"ec-regexp\">"
    [] className = "ec-numeric" -> "<span class=\"ec-numeric\">"
    [] className = "ec-object" -> "<span class=\"ec-object\">"
    [] className = "ec-function" -> "<span class=\"ec-function\">"
    [] className = "ec-hidden" -> "<span class=\"ec-hidden\">"
    [] className = "ec-function-signature" -> "<span class=\"ec-function-signature\">"
    [] className = "ec-collapse-arrow" -> "<span class=\"ec-collapse-arrow\">"
    [] className = "ec-stack" -> "<span class=\"ec-stack\">"

SpanClose == "</span>"
LineBreak == "<br />"

SpanClasses ==
  {"ec-nullish", "ec-string", "ec-regexp", "ec-numeric", "ec-object", "ec-function",
   "ec-hidden", "ec-function-signature", "ec-collapse-arrow", "ec-stack"}

OpenTags == {SpanOpen(c) : c \in SpanClasses}

------------------------------------------------------------------------------
(* JavaScript values *)

StringValue(chars) == [t |-> "string", s |-> chars, n |-> 0, id |-> ""]
NumberValue(k) == [t |-> "number", s |-> <<>>, n |-> k, id |-> ""]
BooleanValue(b) == [t |-> "boolean", s |-> <<>>, n |-> IF b THEN 1 ELSE 0, id |-> ""]
Null == [t |-> "null", s |-> <<>>, n |-> 0, id |-> ""]
Undefined == [t |-> "undefined", s |-> <<>>, n |-> 0, id |-> ""]
\* a reference to the heap object id (typeof value === 'object', not null)
Ref(i) == [t |-> "object", s |-> <<>>, n |-> 0, id |-> i]
\* a function declared with this name
FunctionValue(name) == [t |-> "function", s |-> name, n |-> 0, id |-> ""]
\* the built-in Object constructor
ObjectConstructor ==
  [t |-> "function", s |-> <<"O", "b", "j", "e", "c", "t">>, n |-> 0, id |-> "Object"]

\* a data property and an accessor property (its getter throws or returns val)
DataProp(key, val) == [key |-> key, acc |-> FALSE, thr |-> FALSE, enum |-> TRUE, val |-> val]
HiddenProp(key, val) == [key |-> key, acc |-> FALSE, thr |-> FALSE, enum |-> FALSE, val |-> val]
Getter(key, throws, val) == [key |-> key, acc |-> TRUE, thr |-> throws, enum |-> TRUE, val |-> val]

\* kinds: "object", "array", "set", "map", "weakset", "proxy" (a Proxy of a plain
\* object whose get trap throws).  cls is the name of the class the object was
\* constructed by (empty: Object).  props are the own properties in the order of
\* Object.getOwnPropertyNames.  items are the elements of a Set, the <<key, value>>
\* entries of a Map.  str is "throws" when converting the object to a string raises.
Object(kind, cls, props, items, str) ==
  [kind |-> kind, cls |-> cls, props |-> props, items |-> items, str |-> str]
PlainObject(props) == Object("object", <<>>, props, <<>>, "default")
Array(elems, extra) ==
  Object("array", <<>>,
         elems \o <<HiddenProp(<<"l", "e", "n", "g", "t", "h">>, NumberValue(Len(elems)))>> \o extra,
         <<>>, "default")

KeyLength == <<"l", "e", "n", "g", "t", "h">>
KeyConstructor == <<"c", "o", "n", "s", "t", "r", "u", "c", "t", "o", "r">>
KeyName == <<"n", "a", "m", "e">>

Digit(k) ==
  CASE k = 0 -> "0" [] k = 1 -> "1" [] k = 2 -> "2" [] k = 3 -> "3" [] k = 4 -> "4"
    [] k = 5 -> "5" [] k = 6 -> "6" [] k = 7 -> "7" [] k = 8 -> "8" [] k = 9 -> "9"

\* Number.prototype.toString of a natural number
RECURSIVE NumberToString(_)
NumberToString(k) ==
  IF k < 10 THEN <<Digit(k)>> ELSE NumberToString(k \div 10) \o <<Digit(k % 10)>>

\* Function.prototype.toString of a function declared with this name
FunctionSource(name) ==
  <<"f", "u", "n", "c", "t", "i", "o", "n", " ">> \o name \o <<"(", ")", " ", "{", "}">>

\* native.String of a value that is no object (it cannot raise)
NativeString(value) ==
  CASE value.t = "string" -> value.s
    [] value.t = "number" -> NumberToString(value.n)
    [] value.t = "boolean" ->
         IF value.n = 1 THEN <<"t", "r", "u", "e">> ELSE <<"f", "a", "l", "s", "e">>
    [] value.t = "null" -> <<"n", "u", "l", "l">>
    [] value.t = "undefined" -> <<"u", "n", "d", "e", "f", "i", "n", "e", "d">>
    [] value.t = "function" -> FunctionSource(value.s)

\* ToBoolean
Truthy(value) ==
  CASE value.t = "string" -> Len(value.s) > 0
    [] value.t = "number" -> value.n # 0
    [] value.t = "boolean" -> value.n = 1
    [] value.t \in {"null", "undefined"} -> FALSE
    [] OTHER -> TRUE

------------------------------------------------------------------------------
(* The objects of the model *)

Key(i) ==
  <<CASE i = 1 -> "a" [] i = 2 -> "b" [] i = 3 -> "c" [] i = 4 -> "d" [] i = 5 -> "e"
      [] i = 6 -> "f" [] i = 7 -> "g" [] i = 8 -> "h" [] i = 9 -> "i" [] OTHER -> "j">>

\* an object of n own enumerable data properties
Numbered(k) == PlainObject([i \in 1..k |-> DataProp(Key(i), NumberValue(i))])

KeyToString == <<"t", "o", "S", "t", "r", "i", "n", "g">>
Markup == <<"<", "b", ">">>

Catalog ==
     "o1" :> PlainObject(<<DataProp(<<"a">>, NumberValue(1))>>)
  @@ "self" :> PlainObject(<<DataProp(<<"s", "e", "l", "f">>, Ref("self"))>>)
  @@ "m1" :> PlainObject(<<DataProp(<<"n">>, Ref("m2"))>>)
  @@ "m2" :> PlainObject(<<DataProp(<<"b">>, Ref("m1"))>>)
  @@ "loop" :> Array(<<DataProp(<<"0">>, Ref("loop"))>>, <<>>)
  @@ "shared" :> PlainObject(<<DataProp(<<"l">>, Ref("o1")), DataProp(<<"r">>, Ref("o1"))>>)
  @@ "g" :> PlainObject(<<Getter(<<"x">>, TRUE, Undefined)>>)
  @@ "gv" :> PlainObject(<<DataProp(<<"a">>, NumberValue(1)), Getter(<<"y">>, FALSE, NumberValue(5))>>)
  @@ "gc" :> PlainObject(<<Getter(KeyConstructor, TRUE, Undefined)>>)
  @@ "p4" :> Numbered(4)
  @@ "p5" :> Numbered(5)
  @@ "p6" :> Numbered(6)
  @@ "p10" :> Numbered(10)
  @@ "arr" :> Array(<<DataProp(<<"0">>, NumberValue(1)), DataProp(<<"1">>, StringValue(Markup))>>, <<>>)
  @@ "arrx" :> Array(<<DataProp(<<"0">>, NumberValue(1))>>, <<DataProp(<<"x">>, NumberValue(2))>>)
  @@ "set1" :> Object("set", <<>>, <<>>, <<NumberValue(1), StringValue(Markup)>>, "default")
  @@ "map1" :> Object("map", <<>>, <<>>, <<<<StringValue(Markup), Ref("o1")>>>>, "default")
  @@ "ws" :> Object("weakset", <<>>, <<>>, <<>>, "default")
  @@ "px" :> Object("proxy", <<>>, <<>>, <<>>, "throws")
  @@ "ts" :> Object("object", <<>>, <<DataProp(KeyToString, FunctionValue(KeyToString))>>, <<>>, "throws")
  @@ "html" :> PlainObject(<<DataProp(Markup, StringValue(<<"<", "i", ">", " ", "\n">>))>>)
  @@ "c1" :> PlainObject(<<DataProp(<<"n">>, Ref("c2"))>>)
  @@ "c2" :> PlainObject(<<DataProp(<<"n">>, Ref("c3"))>>)
  @@ "c3" :> PlainObject(<<DataProp(<<"a">>, NumberValue(1)), DataProp(<<"n">>, Ref("c1"))>>)
  @@ "set2" :> Object("set", <<>>, <<>>, <<Ref("o1"), Ref("o1")>>, "default")
  @@ "selfset" :> Object("set", <<>>, <<>>, <<Ref("selfset")>>, "default")
  @@ "inset" :> PlainObject(<<DataProp(<<"s">>, Ref("holder"))>>)
  @@ "holder" :> Object("set", <<>>, <<>>, <<Ref("inset")>>, "default")
  @@ "map2" :> Object("map", <<>>, <<>>, <<<<Ref("o1"), Ref("o1")>>>>, "default")
  @@ "s1" :> Object("set", <<>>, <<>>, <<Ref("s2")>>, "default")
  @@ "s2" :> Object("set", <<>>, <<>>, <<Ref("s3")>>, "default")
  @@ "s3" :> Object("set", <<>>, <<>>, <<Ref("s4")>>, "default")
  @@ "s4" :> Object("set", <<>>, <<>>, <<Ref("s5")>>, "default")
  @@ "s5" :> Object("set", <<>>, <<>>, <<Ref("s6")>>, "default")
  @@ "s6" :> Object("set", <<>>, <<>>, <<NumberValue(1)>>, "default")
  @@ "foo" :> Object("object", <<"<", "F", ">">>, <<HiddenProp(<<"h">>, Null)>>, <<>>, "default")

\* the object a reference refers to: one of the catalog, or one built for the
\* inspection at hand
Obj(id) == IF id \in DOMAIN graph THEN graph[id] ELSE Catalog[id]

------------------------------------------------------------------------------
(* The type predicates *)

isNullish(value) == value.t \in {"null", "undefined"}
isNumber(value) == value.t = "number"
isBool(value) == value.t = "boolean"
isString(value) == value.t = "string"
isFunction(value) == value.t = "function"
isLoseObject(value) == ~isNullish(value) /\ value.t = "object"
isArray(value) == value.t = "object" /\ Obj(value.id).kind = "array"
isSet(value) == value.t = "object" /\ Obj(value.id).kind = "set"
isMap(value) == value.t = "object" /\ Obj(value.id).kind = "map"
isWeak(value) == value.t = "object" /\ Obj(value.id).kind = "weakset"
isStrictObject(value) == isLoseObject(value) /\ ~isArray(value)

------------------------------------------------------------------------------
(* Escaping *)

\* a character written to the markup as it is
RawChar(char) == char

EscapeChar(char) ==
  CASE char = "<" -> "&lt;"
    [] char = ">" -> "&gt;"
    [] char = " " -> "&nbsp;"
    [] char = "\n" -> LineBreak
    [] OTHER -> char

RECURSIVE EscapeChars(_)
EscapeChars(chars) ==
  IF chars = <<>> THEN <<>> ELSE <<EscapeChar(Head(chars))>> \o EscapeChars(Tail(chars))

escapeHtml(value) == EscapeChars(NativeString(value))

wrapInSpan(className, value, doEscape) ==
  <<SpanOpen(className)>> \o (IF doEscape THEN escapeHtml(value) ELSE value) \o <<SpanClose>>

Min(a, b) == IF a < b THEN a ELSE b

trimString(str, maxLen) ==
  SubSeq(str, 1, Min(Len(str), maxLen)) \o (IF Len(str) > maxLen THEN <<COLLAPSED_CHAR>> ELSE <<>>)

DefaultMaxLen == 100

FUNCTION_SIGNATURE_PREFIX == wrapInSpan(ClassNames.FUNCTION_SIGNATURE, <<"U+0192", " ">>, FALSE)
COLLAPSED_ARROW == wrapInSpan(ClassNames.ARROW, <<COLLAPSED_ARROW_RAW>>, FALSE)
EXPANDED_ARROW == wrapInSpan(ClassNames.ARROW, <<EXPANDED_ARROW_RAW>>, FALSE)

------------------------------------------------------------------------------
(* The inspector.  The WeakSet of visited values, the record of what the    *)
(* walk did and a raised error are threaded through the calls as st:        *)
(*   visited  the ids in the WeakSet                                        *)
(*   trace    the events of the walk, in order (see Event)                  *)
(*   thrown   an error was raised and is propagating                        *)
(* path holds the composites whose rendering is in progress.                *)

\* ev: "enter" (the members of composite id are walked), "getter" (the [Getter]
\* marker is written for key of id), "invoke" (the getter of key of id is
\* called), "circular" (the [Circular] marker is written for key of id, whose
\* value is tgt), "descend" (key of id holds a composite tgt that is inspected)
Event(ev, id, key, tgt, onPath) ==
  [ev |-> ev, id |-> id, key |-> key, tgt |-> tgt, onPath |-> onPath]

NewWalk == [visited |-> {}, trace |-> <<>>, thrown |-> FALSE]

Note(st, event) == [st EXCEPT !.trace = Append(@, event)]
Throw(st) == [html |-> <<>>, st |-> [st EXCEPT !.thrown = TRUE]]

OwnProps(o, key) == {i \in 1..Len(o.props) : o.props[i].key = key}

\* the constructor a composite inherits from its prototype
InheritedConstructor(o) ==
  CASE o.kind = "object" -> IF o.cls = <<>> THEN ObjectConstructor ELSE FunctionValue(o.cls)
    [] o.kind = "array" -> FunctionValue(<<"A", "r", "r", "a", "y">>)
    [] o.kind = "set" -> FunctionValue(<<"S", "e", "t">>)
    [] o.kind = "map" -> FunctionValue(<<"M", "a", "p">>)
    [] o.kind = "weakset" -> FunctionValue(<<"W", "e", "a", "k", "S", "e", "t">>)
    [] OTHER -> ObjectConstructor

\* value[key]: the property read of JavaScript.  An accessor's getter is called;
\* a Proxy's get trap raises.  Returns [val, st].
OwnProperty(id, p, key, st) ==
  IF p.acc THEN
    [val |-> p.val, st |-> [Note(st, Event("invoke", id, key, "", FALSE)) EXCEPT !.thrown = p.thr]]
  ELSE [val |-> p.val, st |-> st]

GetProperty(value, key, st) ==
  IF value.t = "function" THEN
    [val |-> IF key = KeyName THEN StringValue(value.s) ELSE Undefined, st |-> st]
  ELSE IF value.t # "object" THEN [val |-> Undefined, st |-> st]
  ELSE IF Obj(value.id).kind = "proxy" THEN
    [val |-> Undefined, st |-> [st EXCEPT !.thrown = TRUE]]
  ELSE IF OwnProps(Obj(value.id), key) # {} THEN
    OwnProperty(value.id,
                Obj(value.id).props[CHOOSE i \in OwnProps(Obj(value.id), key) : TRUE],
                key, st)
  ELSE IF key = KeyConstructor THEN [val |-> InheritedConstructor(Obj(value.id)), st |-> st]
  ELSE [val |-> Undefined, st |-> st]

RECURSIVE inspect(_, _, _, _, _, _)
RECURSIVE WalkKeys(_, _, _, _, _, _, _)
RECURSIVE InspectKeys(_, _, _, _, _, _)
RECURSIVE InspectEntries(_, _, _, _, _, _)

\* the rendering of the i-th own key of object id, given that of its value
Piece(id, i, str, collapsed, html) ==
  LET o == Obj(id)
      descriptor == o.props[i]
      hasInternalProperty == descriptor.key = KeyLength
  IN (IF Len(str) > 0 THEN <<", ">> ELSE <<>>)
     \o (IF ~collapsed THEN <<LineBreak>> ELSE <<>>)
     \o (IF o.kind # "array" \/ hasInternalProperty THEN
           (IF ~descriptor.enum THEN
              wrapInSpan(ClassNames.OBJECT_HIDDEN_PROPERTY,
                         IF hasInternalProperty
                         THEN <<"[">> \o EscapeChars(descriptor.key) \o <<"]">>
                         ELSE EscapeChars(descriptor.key),
                         FALSE)
            ELSE IF hasInternalProperty
                 THEN <<"[">> \o EscapeChars(descriptor.key) \o <<"]">>
                 ELSE EscapeChars(descriptor.key))
           \o <<": ">> \o html
         ELSE html)

\* the walk state with which the value of a data property is inspected
Entering(id, key, value, st, path) ==
  IF isLoseObject(value) THEN
    [Note(st, Event("descend", id, key, value.id, value.id \in path))
       EXCEPT !.visited = @ \cup {value.id}]
  ELSE st

\* `result` of the i-th own key of object id
KeyResult(id, i, st, collapsed, path, depth) ==
  LET o == Obj(id)
      descriptor == o.props[i]
  IN
  IF descriptor.acc THEN
    [html |-> FUNCTION_SIGNATURE_PREFIX \o <<" ", "[Getter]">>,
     st |-> Note(st, Event("getter", id, descriptor.key, "", FALSE))]
  ELSE IF o.kind = "proxy" THEN Throw(st)
  ELSE IF descriptor.val.t = "object" /\ descriptor.val.id \in st.visited THEN
    [html |-> <<"[Circular]">>,
     st |-> Note(st, Event("circular", id, descriptor.key, descriptor.val.id,
                           descriptor.val.id \in path))]
  ELSE inspect(descriptor.val, Entering(id, descriptor.key, descriptor.val, st, path),
               TRUE, collapsed, path, depth + 1)

\* the rest of the loop once the i-th key is rendered as r
WalkOn(id, i, str, r, collapsed, path, depth) ==
  IF r.st.thrown THEN Throw(r.st)
  ELSE WalkKeys(id, i + 1, str \o Piece(id, i, str, collapsed, r.html), r.st,
                collapsed, path, depth)

\* the loop of recursiveInspect over the own keys of obj, from the i-th on
WalkKeys(id, i, str, st, collapsed, path, depth) ==
  IF i > Len(Obj(id).props) THEN [html |-> str, st |-> st]
  ELSE IF collapsed /\ i >= MAX_COLLAPSED_PROPERTIES THEN
    [html |-> str \o <<", ", COLLAPSED_CHAR>>, st |-> st]
  ELSE WalkOn(id, i, str, KeyResult(id, i, st, collapsed, path, depth), collapsed, path, depth)

Bracketed(obj, r) ==
  IF r.st.thrown THEN Throw(r.st)
  ELSE [html |-> IF ~isArray(obj) THEN <<"{">> \o r.html \o <<"}">>
                 ELSE <<"[">> \o r.html \o <<"]">>,
        st |-> r.st]

recursiveInspect(obj, st, inObject, collapsed, path, depth) ==
  IF ~isLoseObject(obj) THEN inspect(obj, st, inObject, collapsed, path, depth + 1)
  ELSE Bracketed(obj,
                 WalkKeys(obj.id, 1, <<>>, Note(st, Event("enter", obj.id, <<>>, "", FALSE)),
                          collapsed, path \cup {obj.id}, depth))

KeysOn(items, i, str, r, path, depth) ==
  IF r.st.thrown THEN Throw(r.st)
  ELSE InspectKeys(items, i + 1, str \o (IF i > 1 THEN <<", ">> ELSE <<>>) \o r.html,
                   r.st, path, depth)

\* the elements of a Set, each inspected by self(k, false), joined by ', '
InspectKeys(items, i, str, st, path, depth) ==
  IF i > Len(items) THEN [html |-> str, st |-> st]
  ELSE KeysOn(items, i, str, inspect(items[i], st, FALSE, TRUE, path, depth + 1), path, depth)

EntriesOn(items, i, str, k, v, path, depth) ==
  IF v.st.thrown THEN Throw(v.st)
  ELSE InspectEntries(items, i + 1,
                      str \o (IF i > 1 THEN <<", ">> ELSE <<>>) \o k.html \o <<" => ">> \o v.html,
                      v.st, path, depth)

EntryValue(items, i, str, k, path, depth) ==
  IF k.st.thrown THEN Throw(k.st)
  ELSE EntriesOn(items, i, str, k, inspect(items[i][2], k.st, TRUE, TRUE, path, depth + 1),
                 path, depth)

\* the entries of a Map, each as self(k, true) => self(v, true), joined by ', '
InspectEntries(items, i, str, st, path, depth) ==
  IF i > Len(items) THEN [html |-> str, st |-> st]
  ELSE EntryValue(items, i, str, inspect(items[i][1], st, TRUE, TRUE, path, depth + 1),
                  path, depth)

\* the walk of a value that is not marked as visited
UnmarkedRecursive(value, st, inObject, collapsed, path, depth) ==
  recursiveInspect(value, st, inObject, collapsed, path, depth + 1)

\* selfRecursive of inspect: the value joins the visited set and is walked
selfRecursive(value, st, inObject, collapsed, path, depth) ==
  recursiveInspect(value, [st EXCEPT !.visited = @ \cup {value.id}],
                   inObject, collapsed, path, depth + 1)

ARROW(collapsed) == IF collapsed THEN COLLAPSED_ARROW ELSE EXPANDED_ARROW

\* an object or array rendering: the prefix, then the members
Prefixed(prefix, suffix, result, r) ==
  IF r.st.thrown THEN Throw(r.st)
  ELSE [html |-> wrapInSpan(ClassNames.OBJECT, prefix \o r.html \o suffix \o result.html, FALSE),
        st |-> r.st]

Unprefixed(prefix, result, st) ==
  [html |-> wrapInSpan(ClassNames.OBJECT, prefix \o result.html, FALSE), st |-> st]

\* prefix += `${self(valueConstructor.name)} `
ConstructorName(collapsed, result, name, path, depth) ==
  IF name.st.thrown THEN Throw(name.st)
  ELSE Prefixed(ARROW(collapsed) \o <<" ">>, <<" ">>, result,
                inspect(name.val, name.st, FALSE, TRUE, path, depth + 1))

ConstructorPrefix(collapsed, result, valueConstructor, path, depth) ==
  IF valueConstructor.st.thrown THEN Throw(valueConstructor.st)
  ELSE IF Truthy(valueConstructor.val) /\ valueConstructor.val # ObjectConstructor THEN
    ConstructorName(collapsed, result,
                    GetProperty(valueConstructor.val, KeyName, valueConstructor.st), path, depth)
  ELSE Unprefixed(ARROW(collapsed) \o <<" ">>, result, valueConstructor.st)

ObjectPrefix(value, collapsed, result, path, depth) ==
  IF result.st.thrown THEN Throw(result.st)
  ELSE ConstructorPrefix(collapsed, result, GetProperty(value, KeyConstructor, result.st),
                         path, depth)

ItemsUnknown ==
  EscapeChars(<<"{", " ", "<", "i", "t", "e", "m", "s", " ", "u", "n", "k", "n", "o", "w", "n",
                ">", " ", "}">>)

\* the strictObject branch of inspect
InspectObject(value, st, inObject, collapsed, path, depth) ==
  ObjectPrefix(value, collapsed,
               IF isWeak(value) THEN [html |-> ItemsUnknown, st |-> st]
               ELSE selfRecursive(value, st, inObject, collapsed, path, depth),
               path, depth)

LengthPrefix(collapsed, result, length, path, depth) ==
  IF length.n >= 2 THEN
    Prefixed(ARROW(collapsed) \o <<" ", "(">>, <<")", " ">>, result,
             inspect(length, result.st, TRUE, TRUE, path, depth + 1))
  ELSE Unprefixed(ARROW(collapsed) \o <<" ">>, result, result.st)

ArrayPrefix(value, collapsed, result, path, depth) ==
  IF result.st.thrown THEN Throw(result.st)
  ELSE LengthPrefix(collapsed, result, GetProperty(value, KeyLength, result.st).val, path, depth)

\* the array branch of inspect
InspectArray(value, st, inObject, collapsed, path, depth) ==
  ArrayPrefix(value, collapsed, selfRecursive(value, st, inObject, collapsed, path, depth),
              path, depth)

\* a Set or Map rendering: the label, the size, the members
Collection(label, size, inspected) ==
  IF inspected.st.thrown THEN Throw(inspected.st)
  ELSE [html |-> wrapInSpan(ClassNames.SET,
                            <<label>> \o size.html \o <<")", " {">> \o inspected.html \o <<"}">>,
                            FALSE),
        st |-> inspected.st]

SetMembers(value, size, path, depth) ==
  IF size.st.thrown THEN Throw(size.st)
  ELSE Collection("Set(", size,
                  InspectKeys(Obj(value.id).items, 1, <<>>, size.st,
                              path \cup {value.id}, depth))

MapMembers(value, size, path, depth) ==
  IF size.st.thrown THEN Throw(size.st)
  ELSE Collection("Map(", size,
                  InspectEntries(Obj(value.id).items, 1, <<>>, size.st,
                                 path \cup {value.id}, depth))

\* the size of a Set or Map, rendered by self(value.size, true)
InspectSize(value, st, path, depth) ==
  inspect(NumberValue(Len(Obj(value.id).items)),
          Note(st, Event("enter", value.id, <<>>, "", FALSE)), TRUE, TRUE, path, depth + 1)

InspectFunction(value, inObject) ==
  IF Len(value.s) > 0 THEN
    FUNCTION_SIGNATURE_PREFIX
    \o wrapInSpan(ClassNames.FUNCTION,
                  StringValue(trimString(IF inObject THEN value.s \o <<"(", ")">>
                                         ELSE NativeString(value),
                                         DefaultMaxLen)),
                  TRUE)
  ELSE wrapInSpan(ClassNames.FUNCTION,
                  StringValue(<<"(", ")", " ", "=", ">", " ", COLLAPSED_CHAR>>), TRUE)

\* Inspects any value and returns its markup: [html, st].  Error, RegExp and
\* BigInt values are outside the values of this model.
inspect(value, st, inObject, collapsed, path, depth) ==
  IF depth > StackLimit THEN Throw(st)
  ELSE IF isString(value) THEN
    [html |-> IF inObject
              THEN wrapInSpan(ClassNames.STRING_OBJECT,
                              StringValue(<<"\"">> \o trimString(value.s, DefaultMaxLen)
                                          \o <<"\"">>),
                              TRUE)
              ELSE wrapInSpan(ClassNames.STRING, value, TRUE),
     st |-> st]
  ELSE IF isNullish(value) THEN
    [html |-> wrapInSpan(ClassNames.NULLISH, value, TRUE), st |-> st]
  ELSE IF isSet(value) THEN SetMembers(value, InspectSize(value, st, path, depth), path, depth)
  ELSE IF isMap(value) THEN MapMembers(value, InspectSize(value, st, path, depth), path, depth)
  ELSE IF isStrictObject(value) THEN InspectObject(value, st, inObject, collapsed, path, depth)
  ELSE IF isArray(value) THEN InspectArray(value, st, inObject, collapsed, path, depth)
  ELSE IF isFunction(value) THEN [html |-> InspectFunction(value, inObject), st |-> st]
  ELSE IF isNumber(value) \/ isBool(value) THEN
    [html |-> wrapInSpan(ClassNames.NUMERIC, value, TRUE), st |-> st]
  ELSE [html |-> wrapInSpan(ClassNames.DEFAULT, value, TRUE), st |-> st]

------------------------------------------------------------------------------
(* The argument formatter *)

\* the elements of an array: its index properties, which precede length
Elements(o) == SubSeq(o.props, 1, (CHOOSE i \in 1..Len(o.props) : o.props[i].key = KeyLength) - 1)

RECURSIVE StringOf(_, _)
RECURSIVE JoinElements(_, _, _, _)

JoinOn(elems, i, str, r, seen) ==
  IF r.thrown THEN [s |-> <<>>, thrown |-> TRUE]
  ELSE JoinElements(elems, i + 1, str \o (IF i > 1 THEN <<",">> ELSE <<>>) \o r.s, seen)

\* Array.prototype.join(','): null and undefined give '', an array that is
\* already being joined gives ''
JoinElements(elems, i, str, seen) ==
  IF i > Len(elems) THEN [s |-> str, thrown |-> FALSE]
  ELSE JoinOn(elems, i, str,
              IF isNullish(elems[i].val) THEN [s |-> <<>>, thrown |-> FALSE]
              ELSE StringOf(elems[i].val, seen),
              seen)

\* the string conversion of `res += value`: [s, thrown]
StringOf(value, seen) ==
  IF value.t # "object" THEN [s |-> NativeString(value), thrown |-> FALSE]
  ELSE IF Obj(value.id).kind = "proxy" \/ Obj(value.id).str = "throws" THEN
    [s |-> <<>>, thrown |-> TRUE]
  ELSE IF Obj(value.id).kind = "array" THEN
    IF value.id \in seen THEN [s |-> <<>>, thrown |-> FALSE]
    ELSE JoinElements(Elements(Obj(value.id)), 1, <<>>, seen \cup {value.id})
  ELSE [s |-> <<"[", "o", "b", "j", "e", "c", "t", " ">>
              \o InheritedConstructor(Obj(value.id)).s \o <<"]">>,
        thrown |-> FALSE]

\* data[k] of JavaScript (k from 0), undefined past the end
At(data, k) == IF k + 1 \in 1..Len(data) THEN data[k + 1] ELSE Undefined

RECURSIVE SubstituteLoop(_, _, _, _, _)

\* res += data[++idx] || `%${char}`, and the rest of the loop
Substitute(initial, i, idx, res, data, str) ==
  IF ~Truthy(At(data, idx)) THEN
    SubstituteLoop(initial, i + 1, idx, res \o <<"%", initial[i]>>, data)
  ELSE IF str.thrown THEN [res |-> res, idx |-> idx, thrown |-> TRUE]
  ELSE SubstituteLoop(initial, i + 1, idx, res \o str.s, data)

\* the loop of _formatString over the characters of the template: [res, idx, thrown]
SubstituteLoop(initial, i, idx, res, data) ==
  IF i > Len(initial) THEN [res |-> res, idx |-> idx, thrown |-> FALSE]
  ELSE IF initial[i] \in placeholders /\ i > 1 /\ initial[i - 1] = "%" THEN
    Substitute(initial, i, idx + 1, res, data,
               IF Truthy(At(data, idx + 1)) THEN StringOf(At(data, idx + 1), {})
               ELSE [s |-> <<>>, thrown |-> FALSE])
  ELSE IF initial[i] = "%" THEN SubstituteLoop(initial, i + 1, idx, res, data)
  ELSE SubstituteLoop(initial, i + 1, idx, res \o <<initial[i]>>, data)

\* one parameter of the final map: its markup, [Unknown] when inspect raised
Caught(r) ==
  [html |-> IF r.st.thrown THEN <<"[Unknown]">> ELSE r.html,
   caught |-> r.st.thrown,
   trace |-> r.st.trace]

InspectParam(param, collapsed) == Caught(inspect(param, NewWalk, FALSE, collapsed, {}, 0))

RECURSIVE Join(_, _)
\* Array.prototype.join of the markup of the fragments
Join(frags, sep) ==
  IF frags = <<>> THEN <<>>
  ELSE IF Len(frags) = 1 THEN frags[1].html
  ELSE frags[1].html \o sep \o Join(Tail(frags), sep)

\* the final map and join over the parameters
MapJoin(collapsed, params, idx) ==
  [thrown |-> FALSE,
   html |-> Join([k \in 1..Len(params) |-> InspectParam(params[k], collapsed)], <<" ">>),
   frags |-> [k \in 1..Len(params) |-> InspectParam(params[k], collapsed)],
   idx |-> idx]

\* data[0] = res: data is the rest parameter of this call, an array of its own,
\* so the list of the caller is not written
Substituted(collapsed, data, sub) ==
  IF sub.thrown THEN [thrown |-> TRUE, html |-> <<>>, frags |-> <<>>, idx |-> sub.idx]
  ELSE MapJoin(collapsed, [data EXCEPT ![1] = StringValue(sub.res)], sub.idx)

\* _formatString(collapsed, ...data):
\*   thrown  an error left the call
\*   html    the markup returned
\*   frags   the fragment of each parameter of the final map
\*   idx     the placeholders met in the template
_formatString(collapsed, data) ==
  IF isString(At(data, 0))
  THEN Substituted(collapsed, data, SubstituteLoop(At(data, 0).s, 1, 0, <<>>, data))
  ELSE MapJoin(collapsed, data, 0)

------------------------------------------------------------------------------
(* The document *)

IsTag(token) == token \in OpenTags \cup {SpanClose, LineBreak}

\* how many elements are open after the first i tokens of html
Nesting(html, i) ==
  Cardinality({j \in 1..i : html[j] \in OpenTags})
  - Cardinality({j \in 1..i : html[j] = SpanClose})

\* the opening tags of the child elements of an element whose innerHTML is html
ChildStarts(html) ==
  {i \in 1..Len(html) : html[i] \in OpenTags /\ Nesting(html, i - 1) = 0}

\* the closing tag of the child that opens at token i
ChildEnd(html, i) ==
  CHOOSE j \in (i + 1)..Len(html) :
    /\ Nesting(html, j) = 0
    /\ \A k \in i..(j - 1) : Nesting(html, k) > 0

\* the first character of the innerText of the child that opens at token i
\* ("" when it has no text)
FirstText(html, i, end) ==
  LET texts == {j \in (i + 1)..(end - 1) : html[j] \notin OpenTags \cup {SpanClose}}
  IN  IF texts = {} THEN ""
      ELSE html[CHOOSE j \in texts : \A k \in texts : j <= k]

\* the child elements in document order: of each, its opening tag and the first
\* character of its innerText
Children(html) ==
  [n \in 1..Cardinality(ChildStarts(html)) |->
     LET i == CHOOSE c \in ChildStarts(html) :
                Cardinality({d \in ChildStarts(html) : d < c}) = n - 1
     IN  [tag |-> html[i], first |-> FirstText(html, i, ChildEnd(html, i))]]

\* how deep the elements of html nest
HtmlDepth(html) ==
  CHOOSE d \in 0..Len(html) :
    /\ \E i \in 0..Len(html) : Nesting(html, i) = d
    /\ \A i \in 0..Len(html) : Nesting(html, i) <= d

------------------------------------------------------------------------------
(* The console *)

NoTimer == -1

\* this.timers of a new console, over the labels of the model
Labels == {<<"t">>, <<"%", "s">>}

\* the element _add appends and the raw arguments this.logs keeps for it:
\* innerHTML as assigned, and whether the context-line span is still its child
_add(innerHTML, logLevel, data) ==
  [level |-> logLevel, html |-> innerHTML, ctx |-> TRUE, data |-> data]

NoOut == [thrown |-> FALSE, html |-> <<>>, frags |-> <<>>, idx |-> 0]

Call(op, data, collapsed, out) ==
  [op |-> op, data |-> data, collapsed |-> collapsed, label |-> <<>>,
   entry |-> 0, dist |-> 0, raised |-> out.thrown, out |-> out]

NoCall == Call("new", <<>>, TRUE, NoOut)

\* warn, log and error: format collapsed, append the entry, keep the arguments
Logged(op, data, logLevel, out) ==
  /\ logs' = IF out.thrown THEN logs ELSE Append(logs, _add(out.html, logLevel, data))
  /\ call' = Call(op, data, TRUE, out)

Logging(op, data, logLevel) == Logged(op, data, logLevel, _formatString(TRUE, data))

log(data) ==
  /\ Len(logs) < MaxEntries
  /\ Logging("log", data, ClassNames.LOG)
  /\ UNCHANGED <<graph, timers, now>>

info(data) ==
  /\ Len(logs) < MaxEntries
  /\ Logging("info", data, ClassNames.LOG)
  /\ UNCHANGED <<graph, timers, now>>

warn(data) ==
  /\ Len(logs) < MaxEntries
  /\ Logging("warn", data, ClassNames.WARNING)
  /\ UNCHANGED <<graph, timers, now>>

error(data) ==
  /\ Len(logs) < MaxEntries
  /\ Logging("error", data, ClassNames.ERROR)
  /\ UNCHANGED <<graph, timers, now>>

AssertionFailed ==
  StringValue(<<"A", "s", "s", "e", "r", "t", "i", "o", "n", " ",
                "f", "a", "i", "l", "e", "d", ":">>)

assert(condition, data) ==
  /\ Len(logs) < MaxEntries
  /\ IF Truthy(condition)
     THEN /\ logs' = logs
          /\ call' = Call("assert", <<AssertionFailed>> \o data, TRUE, NoOut)
     ELSE Logging("assert", <<AssertionFailed>> \o data, ClassNames.ERROR)
  /\ UNCHANGED <<graph, timers, now>>

clear ==
  /\ logs # <<>>
  /\ logs' = <<>>
  /\ call' = Call("clear", <<>>, TRUE, NoOut)
  /\ UNCHANGED <<graph, timers, now>>

(* The timer registry *)

time(specifier) ==
  /\ \E reading \in now..MaxTime :
       /\ now' = reading
       /\ timers' = [timers EXCEPT ![specifier] = reading]
  /\ call' = [Call("time", <<>>, TRUE, NoOut) EXCEPT !.label = specifier]
  /\ UNCHANGED <<graph, logs>>

TimerMissing(specifier) ==
  StringValue(<<"T", "i", "m", "e", "r", " ">> \o specifier
              \o <<" ", "d", "o", "e", "s", " ", "n", "o", "t", " ", "e", "x", "i", "s", "t">>)

Elapsed(specifier, elapsed) ==
  <<StringValue(specifier \o <<":">>), StringValue(NumberToString(elapsed) \o <<"m", "s">>)>>

\* the entry of timeEnd appended, the registry left as it is
TimerKept(specifier, data, logLevel, out) ==
  /\ logs' = IF out.thrown THEN logs ELSE Append(logs, _add(out.html, logLevel, data))
  /\ call' = [Call("timeEnd", data, TRUE, out) EXCEPT !.label = specifier]
  /\ timers' = timers

TimerLogged(specifier, data, logLevel, out) ==
  /\ logs' = IF out.thrown THEN logs ELSE Append(logs, _add(out.html, logLevel, data))
  /\ call' = [Call("timeEnd", data, TRUE, out) EXCEPT !.label = specifier]
  /\ timers' = IF out.thrown \/ logLevel = ClassNames.WARNING THEN timers
               ELSE [timers EXCEPT ![specifier] = NoTimer]

timeEnd(specifier) ==
  /\ Len(logs) < MaxEntries
  /\ IF timers[specifier] = NoTimer THEN
       /\ TimerLogged(specifier, <<TimerMissing(specifier)>>, ClassNames.WARNING,
                      _formatString(TRUE, <<TimerMissing(specifier)>>))
       /\ now' = now
     ELSE
       \E reading \in now..MaxTime :
         /\ now' = reading
         /\ TimerLogged(specifier, Elapsed(specifier, reading - timers[specifier]),
                        ClassNames.LOG,
                        _formatString(TRUE, Elapsed(specifier, reading - timers[specifier])))
  /\ UNCHANGED graph

(* The click handler of the console element *)

\* An element of the document as the handler sees it: e is the entry it lies
\* in (0: none) and d the number of parentElement steps up to that entry, or,
\* outside every entry, the number of elements from it up to the root of the
\* document (0: the element is null).
Registered(element) == element.e > 0 /\ element.d = 0
IsNull(element) == element.e = 0 /\ element.d = 0
parentElement(element) == [element EXCEPT !.d = @ - 1]

RECURSIVE FindRegistered(_, _)
\* the do-while loop: the element it leaves in `element`, NullReturn when it returns
NullReturn == [e |-> -1, d |-> 0]
FindRegistered(element, attempt) ==
  IF ~Registered(element) THEN
    IF IsNull(element) THEN NullReturn
    ELSE IF attempt + 1 <= 5 THEN FindRegistered(parentElement(element), attempt + 1)
    ELSE parentElement(element)
  ELSE element

\* the children of an entry: those of its innerHTML, then the context-line span
EntryChildren(entry) ==
  Children(entry.html)
  \o (IF entry.ctx THEN <<[tag |-> SpanOpen(ClassNames.STACK), first |-> "V"]>> ELSE <<>>)

RECURSIVE Find(_, _, _)
\* Array.prototype.find for the class: the first such child, NoChild when none
NoChild == [tag |-> "", first |-> ""]
Find(children, k, className) ==
  IF k > Len(children) THEN NoChild
  ELSE IF children[k].tag = SpanOpen(className) THEN children[k]
  ELSE Find(children, k + 1, className)

\* the markup written to every entry of the console
ReplacedAll(e, out) ==
  IF out.thrown THEN logs
  ELSE [i \in 1..Len(logs) |-> [logs[i] EXCEPT !.html = out.html, !.ctx = FALSE]]

\* element.innerHTML = html
Replaced(e, out) ==
  IF out.thrown THEN logs
  ELSE [logs EXCEPT ![e] = [@ EXCEPT !.html = out.html, !.ctx = FALSE]]

\* the handler once it has looked for the expandable child of the element
Toggled(e, child) ==
  IF child = NoChild THEN logs
  ELSE Replaced(e, _formatString(~(child.first = COLLAPSED_ARROW_RAW), logs[e].data))

\* the handler once the loop has left `element`
Toggle(element) ==
  IF element = NullReturn \/ ~Registered(element) THEN logs
  ELSE Toggled(element.e, Find(EntryChildren(logs[element.e]), 1, ClassNames.OBJECT))

\* what the handler does to the entries: the logs after the click
onclick(target) == Toggle(FindRegistered(target, 0))

\* the elements a click can land on: an entry or an element inside it, the
\* console element and the elements above it, or no element
Targets ==
  {[e |-> k, d |-> d] : k \in 1..Len(logs), d \in 0..7}
  \cup {[e |-> 0, d |-> d] : d \in 0..2}

InDocument(target) ==
  IF target.e = 0 THEN TRUE
  ELSE IF target.d = 1 /\ logs[target.e].ctx THEN TRUE
  ELSE target.d <= HtmlDepth(logs[target.e].html)

click(target) ==
  /\ InDocument(target)
  /\ logs' = onclick(target)
  /\ call' = [Call("click", <<>>, TRUE, NoOut) EXCEPT !.entry = target.e, !.dist = target.d]
  /\ UNCHANGED <<graph, timers, now>>

------------------------------------------------------------------------------
(* The argument lists of the model *)

Strings ==
  {<<>>, <<"o", "k">>, Markup, <<"<", " ", "\n", ">">>, <<"1", "0", "0", "%">>, <<"%", "x">>}

Primitives ==
  {StringValue(chars) : chars \in Strings}
  \cup {NumberValue(0), NumberValue(5), BooleanValue(FALSE), BooleanValue(TRUE), Null, Undefined,
        FunctionValue(<<"f">>), FunctionValue(<<>>)}

Composites == {Ref(i) : i \in DOMAIN Catalog}

Templates ==
  {<<"%", "s", " ", "i", "s", " ", "%", "d">>, <<"%", "s">>, <<"<", "%", "o", ">">>,
   <<"%", "%", "d", "%", "x">>}

\* the arguments substituted into a template
TemplateArgs ==
  {StringValue(<<"x">>), StringValue(<<>>), StringValue(Markup), NumberValue(5), NumberValue(0),
   BooleanValue(FALSE), Null, Undefined, Ref("o1"), Ref("arr"), Ref("px"), Ref("ts")}

\* the argument lists given to the formatter
FormatInputs ==
  {<<>>}
  \cup {<<v>> : v \in Primitives \cup Composites}
  \cup {<<a, b>> : a \in {Ref("px"), Ref("gc"), Ref("o1"), NumberValue(5), StringValue(<<"o", "k">>),
                          StringValue(<<"1", "0", "0", "%">>)},
                   b \in {StringValue(<<"o", "k">>), StringValue(<<"1", "0", "0", "%">>),
                          Ref("px"), Ref("p6")}}
  \cup {<<StringValue(t)>> : t \in Templates}
  \cup {<<StringValue(t), a>> : t \in Templates, a \in TemplateArgs}
  \cup {<<StringValue(t), a, b>> : t \in Templates, a \in TemplateArgs, b \in TemplateArgs}
  \cup {<<StringValue(t), a, b, Ref("o1")>> : t \in Templates,
          a \in {StringValue(<<"x">>), NumberValue(0)}, b \in {NumberValue(5), Null}}

\* the argument lists given to log
LogInputs ==
  {<<Ref("set1"), Ref("o1")>>,
   <<StringValue(<<"%", "s">>), Ref("px")>>,
   <<StringValue(<<"%", "s", ":">>), Ref("o1")>>,
   <<NumberValue(5)>>}

\* the argument lists given to info, warn, error and assert
LevelInputs ==
  {<<StringValue(<<"%", "s">>), Ref("px")>>,
   <<StringValue(<<"%", "s", ":">>), Ref("o1")>>}

\* the argument lists logged before the clicks on deep elements
ClickInputs == {<<Ref("o1"), Ref("s1")>>, <<NumberValue(5)>>}

\* the argument lists logged before the toggles beside running timers
ToggleInputs == {<<StringValue(<<"%", "s", ":">>), Ref("o1")>>, <<NumberValue(5)>>}

\* the graphs of plain objects and arrays given to the inspector: every node
\* holds up to MaxSlots members, each a number or a reference to a node
Nodes == {"a", "b"}

Slots == {NumberValue(1)} \cup {Ref(n) : n \in Nodes}

Members == UNION {[1..k -> Slots] : k \in 0..MaxSlots}

NodeObject(members) ==
  PlainObject([i \in 1..Len(members) |-> DataProp(Key(i), members[i])])

NodeArray(members) ==
  Array([i \in 1..Len(members) |-> DataProp(NumberToString(i - 1), members[i])], <<>>)

Shapes == {NodeObject(m) : m \in Members} \cup {NodeArray(m) : m \in Members}

Graphs == [Nodes -> Shapes]

\* the nodes a top-level inspect starts from: those of the graph and the
\* cyclic objects of the catalog
Roots == Nodes \cup {"self", "m1", "loop", "c1"}

------------------------------------------------------------------------------
(* Specifications *)

\* a new console
Init ==
  /\ graph = <<>>
  /\ logs = <<>>
  /\ timers = [l \in Labels |-> NoTimer]
  /\ now = 0
  /\ call = NoCall

\* the console: the logging entry points, the click handler and clear
Next ==
  \/ \E data \in LogInputs : log(data)
  \/ \E data \in LevelInputs : info(data)
  \/ \E data \in LevelInputs : warn(data)
  \/ \E data \in LevelInputs : error(data)
  \/ \E condition \in {BooleanValue(FALSE), NumberValue(5)}, data \in LevelInputs :
       assert(condition, data)
  \/ \E target \in Targets : click(target)
  \/ clear

Spec == Init /\ [][Next]_vars

\* the timer registry
NextTimer ==
  \/ \E specifier \in Labels : time(specifier)
  \/ \E specifier \in Labels : timeEnd(specifier)
  \/ clear

SpecTimer == Init /\ [][NextTimer]_vars

\* one call of the argument formatter
format(collapsed, data) ==
  /\ call.op = "new"
  /\ call' = Call("_formatString", data, collapsed, _formatString(collapsed, data))
  /\ UNCHANGED <<graph, logs, timers, now>>

NextFormat == \E collapsed \in BOOLEAN, data \in FormatInputs : format(collapsed, data)

SpecFormat == Init /\ [][NextFormat]_vars

\* one top-level call of the inspector on a node of a graph
InitGraph ==
  /\ graph \in Graphs
  /\ logs = <<>>
  /\ timers = [l \in Labels |-> NoTimer]
  /\ now = 0
  /\ call = NoCall

Inspected(r) ==
  [thrown |-> r.st.thrown, html |-> r.html, frags |-> <<Caught(r)>>, idx |-> 0]

inspectNode(root, collapsed) ==
  /\ call.op = "new"
  /\ call' = Call("inspect", <<Ref(root)>>, collapsed,
                  Inspected(inspect(Ref(root), NewWalk, FALSE, collapsed, {}, 0)))
  /\ UNCHANGED <<graph, logs, timers, now>>

NextGraph == \E root \in Roots, collapsed \in BOOLEAN : inspectNode(root, collapsed)

SpecGraph == InitGraph /\ [][NextGraph]_vars

\* the click handler over entries whose markup nests deep
NextClick ==
  \/ \E data \in ClickInputs : log(data)
  \/ \E target \in Targets : click(target)
  \/ clear

SpecClick == Init /\ [][NextClick]_vars

\* the click handler beside the timer registry
NextToggle ==
  \/ \E data \in ToggleInputs : log(data)
  \/ \E target \in Targets : click(target)
  \/ \E specifier \in Labels : time(specifier)
  \/ clear

SpecToggle == Init /\ [][NextToggle]_vars

------------------------------------------------------------------------------
(* Properties *)

Has(html, token) == \E i \in 1..Len(html) : html[i] = token
Count(html, token) == Cardinality({i \in 1..Len(html) : html[i] = token})

\* the events of the walks of a call, over all its fragments
Walked(out) == UNION {{f.trace[i] : i \in 1..Len(f.trace)} : f \in {out.frags[k] : k \in 1..Len(out.frags)}}

Formatted == call.op = "_formatString"
LoggingCalls == {"log", "info", "warn", "error", "assert"}

\* C1: every call of log, info, warn, error and assert returns normally, whatever
\* its arguments: no error raised while they are formatted or inspected leaves
\* the call.
LoggingReturns == call.op \in LoggingCalls => ~call.raised

Accessors(o) == {i \in 1..Len(o.props) : o.props[i].acc}

\* C2: formatting never calls a getter of an argument, whatever its name, and an
\* object with an own accessor is rendered, each accessor as "[Getter]".
GettersNeverInvoked ==
  Formatted =>
    /\ \A event \in Walked(call.out) : event.ev # "invoke"
    /\ \A k \in 1..Len(call.out.frags) :
         (/\ call.data[k].t = "object"
          /\ Obj(call.data[k].id).kind = "object"
          /\ Accessors(Obj(call.data[k].id)) # {}
          /\ Len(Obj(call.data[k].id).props) < MAX_COLLAPSED_PROPERTIES)
         => /\ ~call.out.frags[k].caught
            /\ Count(call.out.frags[k].html, "[Getter]")
                 = Cardinality(Accessors(Obj(call.data[k].id)))

Circulars(out) == {i \in 1..Len(out.frags[1].trace) : out.frags[1].trace[i].ev = "circular"}

\* C3: a top-level inspect of a node of a graph of objects and arrays, cyclic or
\* not, terminates; no property whose value is being rendered on the current
\* path is descended into, and each "[Circular]" of the markup is one such cut.
CyclesTerminate ==
  call.op = "inspect" =>
    /\ ~call.raised
    /\ \A event \in Walked(call.out) : event.ev = "descend" => ~event.onPath
    /\ Count(call.out.html, "[Circular]") = Cardinality(Circulars(call.out))

\* the mutual reference a -> b -> a, inspected from a: the walk stops at b's
\* reference to a
CycleCut ==
  /\ call.op = "inspect"
  /\ call.data = <<Ref("a")>>
  /\ ~call.raised
  /\ \E event \in Walked(call.out) :
       event.ev = "circular" /\ event.id = "b" /\ event.tgt = "a" /\ event.onPath
  /\ Has(call.out.html, "[Circular]")

\* the tokens of markup that hold an angle bracket
Angled == OpenTags \cup {SpanClose, LineBreak, "<", ">", " => "}

\* C4: the markup the formatter returns holds no "<" or ">" of an argument: each
\* is an entity, and an angle bracket of the markup belongs to a tag of the
\* engine (or, in the rendering of a Map, to the arrow between key and value).
Escaped ==
  (Formatted /\ ~call.raised) =>
    /\ \A i \in 1..Len(call.out.html) : call.out.html[i] \notin {"<", ">"}
    /\ ~Has(call.out.html, "Map(") =>
         \A i \in 1..Len(call.out.html) :
           call.out.html[i] \in Angled => IsTag(call.out.html[i])

\* "<b>" substituted into the template "<%o>"
EscapedInTemplate ==
  /\ Formatted
  /\ call.data = <<StringValue(<<"<", "%", "o", ">">>), StringValue(Markup)>>
  /\ ~call.raised
  /\ Count(call.out.frags[1].html, "&lt;") = 2
  /\ Count(call.out.frags[1].html, "&gt;") = 2

\* the own properties an object rendering shows: one ": " each, the values
\* being numbers
Flat(o) ==
  /\ o.kind = "object"
  /\ \A i \in 1..Len(o.props) : ~o.props[i].acc /\ o.props[i].enum /\ o.props[i].val.t = "number"

\* C5: collapsed, an object of more than 5 own properties shows exactly its first
\* 5 and then the truncation marker; expanded, an object shows all its own
\* properties and no marker.
CollapsedCap ==
  (/\ Formatted
   /\ Len(call.data) = 1
   /\ call.data[1].t = "object"
   /\ Flat(Obj(call.data[1].id)))
  => IF call.collapsed THEN
       Len(Obj(call.data[1].id).props) > MAX_COLLAPSED_PROPERTIES
       => /\ Count(call.out.html, ": ") = MAX_COLLAPSED_PROPERTIES
          /\ Count(call.out.html, COLLAPSED_CHAR) = 1
     ELSE /\ Count(call.out.html, ": ") = Len(Obj(call.data[1].id).props)
          /\ Count(call.out.html, COLLAPSED_CHAR) = 0

\* C6: when the trailing arguments are as many as the placeholders of the
\* template or more, every placeholder is replaced, whatever the value of its
\* argument, and no "%" is left in the substituted template.
PlaceholdersReplaced ==
  (/\ Formatted
   /\ Len(call.data) >= 1
   /\ isString(call.data[1])
   /\ ~call.raised
   /\ Len(call.data) - 1 >= call.out.idx)
  => ~Has(call.out.frags[1].html, "%")

\* C7: after the substituted template come the renderings of the trailing
\* arguments no placeholder consumed, in order, and nothing else.
UnconsumedOnly ==
  (/\ Formatted
   /\ Len(call.data) >= 1
   /\ isString(call.data[1])
   /\ ~call.raised)
  => /\ Len(call.out.frags) - 1
          = (IF Len(call.data) - 1 > call.out.idx THEN Len(call.data) - 1 - call.out.idx ELSE 0)
     /\ \A j \in 1..(Len(call.out.frags) - 1) :
          call.out.frags[j + 1].html
            = InspectParam(call.data[call.out.idx + 1 + j], call.collapsed).html

\* C8: when the first argument is not a string, the output is one fragment per
\* argument, joined by single spaces, in order: "[Unknown]" for an argument
\* whose inspection raises, and for any other the rendering it gets when it is
\* formatted alone.
FaultsIsolated ==
  (/\ Formatted
   /\ Len(call.data) >= 1
   /\ ~isString(call.data[1]))
  => /\ ~call.raised
     /\ Len(call.out.frags) = Len(call.data)
     /\ call.out.html = Join(call.out.frags, <<" ">>)
     /\ \A k \in 1..Len(call.data) :
          call.out.frags[k].html
            = (IF InspectParam(call.data[k], call.collapsed).caught THEN <<"[Unknown]">>
               ELSE _formatString(call.collapsed, <<call.data[k]>>).html)

\* C9: timeEnd(l) of an active timer appends one log-level entry of the elapsed
\* time and removes l from the registry; of no active timer, it appends one
\* warning-level entry "Timer l does not exist" and leaves the registry as it
\* is; neither raises.  time(l) sets the one start time of l.  No call changes
\* the timer of another label.
TimerRegistry ==
  [][/\ call'.op = "timeEnd" =>
          /\ ~call'.raised
          /\ Len(logs') = Len(logs) + 1
          /\ SubSeq(logs', 1, Len(logs)) = logs
          /\ \A m \in Labels \ {call'.label} : timers'[m] = timers[m]
          /\ IF timers[call'.label] # NoTimer THEN
               /\ logs'[Len(logs')].level = ClassNames.LOG
               /\ logs'[Len(logs')].data = Elapsed(call'.label, now' - timers[call'.label])
               /\ timers'[call'.label] = NoTimer
             ELSE
               /\ logs'[Len(logs')].level = ClassNames.WARNING
               /\ logs'[Len(logs')].data = <<TimerMissing(call'.label)>>
               /\ timers' = timers
     /\ call'.op = "time" =>
          /\ timers'[call'.label] = now'
          /\ \A m \in Labels \ {call'.label} : timers'[m] = timers[m]
          /\ logs' = logs]_vars

\* a timer started, then ended one millisecond later
TimerEnded ==
  /\ call.op = "timeEnd"
  /\ timers[call.label] = NoTimer
  /\ logs # <<>>
  /\ logs[Len(logs)].level = ClassNames.LOG
  /\ logs[Len(logs)].data = Elapsed(call.label, 1)

\* an entry that holds an expandable rendering, and the mode an entry shows
Expandable(entry) ==
  Has(entry.html, COLLAPSED_ARROW_RAW) \/ Has(entry.html, EXPANDED_ARROW_RAW)

Shown(entry, collapsed) == entry.html = _formatString(collapsed, entry.data).html

\* C10: a click on an entry that holds an expandable rendering replaces what the
\* entry shows by the formatter's output over its stored arguments in the
\* opposite mode: collapsed becomes expanded, expanded becomes collapsed.
ToggleFlips ==
  [][(/\ call'.op = "click"
      /\ call'.entry > 0
      /\ call'.dist = 0
      /\ Expandable(logs[call'.entry]))
     => IF Shown(logs[call'.entry], TRUE)
        THEN Shown(logs'[call'.entry], FALSE)
        ELSE Shown(logs'[call'.entry], TRUE)]_vars

\* the j-th event of a walk enters a composite that is in the visited set: an
\* object or array entered before (selfRecursive marks it), or a value marked
\* as the value of a property and entered already
Reenters(trace, j) ==
  /\ trace[j].ev = "enter"
  /\ \E i \in 1..(j - 1) : trace[i].ev = "enter" /\ trace[i].id = trace[j].id
  /\ \/ Obj(trace[j].id).kind \in {"object", "array"}
     \/ \E h \in 1..(j - 1) : trace[h].ev = "descend" /\ trace[h].tgt = trace[j].id

\* C11: during one top-level inspect no composite that is in the visited set is
\* entered again, whether it is met as a property value, as an element of a Set
\* or as a key or value of a Map.
VisitedNeverReentered ==
  Formatted =>
    \A k \in 1..Len(call.out.frags) :
      \A j \in 1..Len(call.out.frags[k].trace) : ~Reenters(call.out.frags[k].trace, j)

\* a key that is an array index: a string of digits
IsIndex(key) == key # <<>> /\ \A i \in 1..Len(key) : key[i] \in {Digit(d) : d \in 0..9}

\* the own keys of an array that are no index, and an array of primitives
NamedKeys(o) == {i \in 1..Len(o.props) : ~IsIndex(o.props[i].key)}
Primitive(o) == \A i \in 1..Len(o.props) : ~o.props[i].acc /\ o.props[i].val.t # "object"

\* C12: in the rendering of an array every own key that is no index (length, or
\* a named property added to the array) is written as key: value, and every
\* index as the bare value.
NamedKeysShown ==
  (/\ Formatted
   /\ Len(call.data) = 1
   /\ isArray(call.data[1])
   /\ Primitive(Obj(call.data[1].id))
   /\ ~call.out.frags[1].caught)
  => Count(call.out.html, ": ") = Cardinality(NamedKeys(Obj(call.data[1].id)))

\* the entry has a child that is an expandable rendering
ExpandableChild(entry) == Find(EntryChildren(entry), 1, ClassNames.OBJECT) # NoChild

\* C13: a click toggles the entry the target lies in when that entry is the
\* target or one of its first 5 ancestors and has an expandable child; any other
\* click (no target, no entry within 5 levels, no expandable child) changes
\* nothing.
BoundedSearch ==
  [][call'.op = "click" =>
       IF /\ call'.entry > 0
          /\ call'.dist <= 5
          /\ ExpandableChild(logs[call'.entry])
       THEN /\ IF Shown(logs[call'.entry], TRUE)
               THEN Shown(logs'[call'.entry], FALSE)
               ELSE Shown(logs'[call'.entry], TRUE)
            /\ \A e \in 1..Len(logs) : e # call'.entry => logs'[e] = logs[e]
       ELSE logs' = logs]_vars

\* C14: a click leaves to every entry its stored arguments (the template of the
\* toggled entry keeps its placeholders) and its level, to every other entry
\* what it shows, and to the timer registry its timers.
ToggleFrame ==
  [][call'.op = "click" =>
       /\ Len(logs') = Len(logs)
       /\ \A e \in 1..Len(logs) :
            /\ logs'[e].data = logs[e].data
            /\ logs'[e].level = logs[e].level
            /\ e # call'.entry => logs'[e] = logs[e]
       /\ timers' = timers]_vars

\* the first of two entries, logged with a template, toggled to expanded while
\* a timer runs and the second entry is as it was logged
ToggledBesideOthers ==
  /\ call.op = "click"
  /\ call.entry = 1
  /\ Len(logs) = 2
  /\ logs[1].data = <<StringValue(<<"%", "s", ":">>), Ref("o1")>>
  /\ ~logs[1].ctx
  /\ Shown(logs[1], FALSE)
  /\ logs[2].ctx
  /\ Shown(logs[2], TRUE)
  /\ \E l \in Labels : timers[l] # NoTimer

\* C15: "[Circular]" is written for a property only when its value is being
\* rendered on the current path, that is, when the value is reachable from
\* itself; a value shared by two properties without a cycle is rendered in full
\* each time.
CircularOnlyOnPath ==
  Formatted => \A event \in Walked(call.out) : event.ev = "circular" => event.onPath

\* C16: a first argument that is a string without any placeholder is rendered
\* character by character, none dropped: a "%" that no placeholder character
\* follows is part of the output.
PlainStringKept ==
  (/\ Formatted
   /\ Len(call.data) >= 1
   /\ isString(call.data[1])
   /\ ~call.raised
   /\ call.out.idx = 0)
  => call.out.frags[1].html = wrapInSpan(ClassNames.STRING, call.data[1], TRUE)

==============================================================================
